---- MODULE Spec2Model ----
(***************************************************************************)
(* Differentially-private training cells of mindarmour                     *)
(* (mindarmour/diff_privacy/train/model.py) and the MNIST example script   *)
(* (example/mnist_demo/lenet5_dp_model_train.py).                          *)
(*                                                                         *)
(* Floating-point values are modelled as exact rationals <<n, d>> in       *)
(* lowest terms with d > 0.  A tensor is a sequence of rationals, a        *)
(* gradient tuple is a function from parameter names to tensors.           *)
(***************************************************************************)
EXTENDS Integers, Sequences, FiniteSets, TLC

\* ------------------------------------------------------------------------
\* Exact rational arithmetic (the value domain of Tensor elements)
\* ------------------------------------------------------------------------
Abs(x) == IF x < 0 THEN -x ELSE x

RECURSIVE Gcd(_, _)
Gcd(a, b) == IF b = 0 THEN a ELSE Gcd(b, a % b)

\* the rational n/d (d # 0) in lowest terms with a positive denominator
Rat(n, d) ==
    LET g == Gcd(Abs(n), Abs(d))
        s == IF d < 0 THEN -1 ELSE 1
    IN  <<(s * n) \div g, (s * d) \div g>>

RInt(k) == <<k, 1>>
RZero == RInt(0)
RAdd(a, b) == Rat(a[1] * b[2] + b[1] * a[2], a[2] * b[2])
RNeg(a) == <<-a[1], a[2]>>
RSub(a, b) == RAdd(a, RNeg(b))
RMul(a, b) == Rat(a[1] * b[1], a[2] * b[2])
RDiv(a, b) == Rat(a[1] * b[2], a[2] * b[1])
RLeq(a, b) == a[1] * b[2] <= b[1] * a[2]
RLess(a, b) == a[1] * b[2] < b[1] * a[2]
RMax(a, b) == IF RLeq(a, b) THEN b ELSE a

\* integer square root of a perfect square, by bisection on lo..hi
RECURSIVE ISqrtIn(_, _, _)
ISqrtIn(n, lo, hi) ==
    IF lo >= hi THEN lo
    ELSE LET mid == (lo + hi + 1) \div 2
         IN  IF mid * mid <= n THEN ISqrtIn(n, mid, hi) ELSE ISqrtIn(n, lo, mid - 1)

ISqrt(n) == ISqrtIn(n, 0, n)

IsSquare(n) == ISqrt(n) * ISqrt(n) = n

\* square root of a rational whose numerator and denominator are squares
RSqrt(a) == <<ISqrt(a[1]), ISqrt(a[2])>>

\* floor(a / b) for b > 0, and Python's a // b and a % b on such numbers
RFloor(a) == IF a[1] >= 0 THEN a[1] \div a[2] ELSE -((-a[1] + a[2] - 1) \div a[2])
RFloorDiv(a, b) == RInt(RFloor(RDiv(a, b)))
RMod(a, b) == RSub(a, RMul(b, RFloorDiv(a, b)))

\* Python int(x): truncation toward zero
PyInt(a) == IF a[1] >= 0 THEN a[1] \div a[2] ELSE -((-a[1]) \div a[2])

\* an absent optional value (Python None) and a present one
None == <<>>
Some(v) == <<v>>

\* Python truth of an optional rational: None and 0 are false
Truthy(x) == x # None /\ x[1] # RZero

\* Python truth of an optional integer
TruthyInt(x) == x # None /\ x[1] # 0

\* ------------------------------------------------------------------------
\* Tensors and gradient tuples
\* ------------------------------------------------------------------------
\* the trainable parameters of the network, in ParameterTuple order
Params == <<"w1", "w2">>

ParamIds == 1 .. Len(Params)

RECURSIVE SumSeq(_)
SumSeq(s) == IF s = <<>> THEN RZero ELSE RAdd(Head(s), SumSeq(Tail(s)))

TAdd(x, y) == [j \in 1 .. Len(x) |-> RAdd(x[j], y[j])]
TSub(x, y) == [j \in 1 .. Len(x) |-> RSub(x[j], y[j])]
TScale(c, x) == [j \in 1 .. Len(x) |-> RMul(c, x[j])]
TDot(x, y) == SumSeq([j \in 1 .. Len(x) |-> RMul(x[j], y[j])])

\* sum of the squares of a tensor's elements
SquareSum(x) == TDot(x, x)

\* L2 norm of one tensor
L2Norm(x) == RSqrt(SquareSum(x))

\* squared L2 norm of a whole gradient tuple, over all parameter tensors
GlobalNormSq(grads) == SumSeq([p \in ParamIds |-> SquareSum(grads[p])])

\* ------------------------------------------------------------------------
\* The wrapped network (user-supplied Cell).  A record of the batch is a
\* feature k with a label y; the per-record loss is y * k * SUM_p <Dir[p], w[p]>,
\* so the gradient of a batch with respect to parameter p is
\* (SUM_r y_r * k_r) * Dir[p].
\* ------------------------------------------------------------------------
Dir == << <<RInt(3), RInt(4)>>, <<RInt(0), RInt(1)>> >>

\* the records of the dataset: <<feature, label>>
Dataset == {<<1, 1>>, <<2, -1>>}

ZeroWeights == [p \in ParamIds |-> [j \in 1 .. Len(Dir[p]) |-> RZero]]

\* the parameters' values after the network is constructed (weight_init)
InitWeights == Dir

RECURSIVE Signal(_, _)
Signal(data, label) ==
    IF data = <<>> THEN 0
    ELSE Head(data) * Head(label) + Signal(Tail(data), Tail(label))

\* self.network(data, label): the loss of a batch at weights w
Network(w, data, label) ==
    RMul(RInt(Signal(data, label)), SumSeq([p \in ParamIds |-> TDot(Dir[p], w[p])]))

\* self.grad(self.network, weights)(data, label, sens): back-propagation of
\* the sensitivity sens, one gradient tensor per weight
GradOperation(w, data, label, sens) ==
    [p \in ParamIds |-> TScale(RMul(sens, RInt(Signal(data, label))), Dir[p])]

\* P.Split(0, output_num): output_num equal parts along axis 0
SplitOk(x, output_num) == output_num >= 1 /\ Len(x) % output_num = 0

Split(x, output_num) ==
    LET q == Len(x) \div output_num
    IN  [n \in 1 .. output_num |-> SubSeq(x, (n - 1) * q + 1, n * q)]

\* ------------------------------------------------------------------------
\* Gradient clipping
\* ------------------------------------------------------------------------
GRADIENT_CLIP_TYPE == 1

\* nn.ClipByNorm: x * clip_norm / max(l2norm(x), clip_norm)
ClipByNorm(x, clip_norm) ==
    LET max_norm == RMax(L2Norm(x), clip_norm)
    IN  [j \in 1 .. Len(x) |-> RDiv(RMul(x[j], clip_norm), max_norm)]

\* C.clip_by_value(x, -clip_value, clip_value)
ClipByValue(x, clip_value) ==
    [j \in 1 .. Len(x) |->
        IF RLess(clip_value, x[j]) THEN clip_value
        ELSE IF RLess(x[j], RNeg(clip_value)) THEN RNeg(clip_value)
        ELSE x[j]]

\* _ClipGradients.construct
ClipGradients(grads, clip_type, clip_value) ==
    IF clip_type \notin {0, 1} THEN grads
    ELSE [p \in ParamIds |->
            IF clip_type = 0 THEN ClipByValue(grads[p], clip_value)
            ELSE ClipByNorm(grads[p], clip_value)]

\* grad_scale: grad * reciprocal(scale)
tensor_grad_scale(scale, grad) == TScale(RDiv(RInt(1), scale), grad)

\* ------------------------------------------------------------------------
\* Bounds of the model
\* ------------------------------------------------------------------------
\* largest number of records in a batch, and largest micro_batches
MaxBatch == 3
\* number of training steps (calls of construct) explored
MaxSteps == 1
\* overflow-flag sum a device reports when it overflowed (0 when it did not)
MaxFlag == 1
\* scale_window of the dynamic loss-scale update cell
ScaleWindow == 1

\* ------------------------------------------------------------------------
\* State
\* ------------------------------------------------------------------------
VARIABLES
    cfg,          \* attributes the training cell's __init__ fixes
    weights,      \* self.weights: the trainable parameters
    loss_scale,   \* self.loss_scale (Parameter "loss_scale")
    good_steps,   \* scale_update_cell: steps since the last overflow
    pc,           \* position inside / between calls of construct
    steps,        \* calls of construct so far
    fr,           \* local variables of the running construct
    obs           \* what the step has done so far: calls made, values passed

trainVars == <<cfg, weights, loss_scale, good_steps, pc, steps, fr, obs>>

\* the construction of a DPModel
VARIABLES
    kw,           \* the arguments DPModel is constructed with, and the context
    model,        \* the DPModel's own attributes
    net,          \* what _build_train_network produced
    bpc           \* position in the construction of the DPModel

buildVars == <<kw, model, net, bpc>>

\* the example script
VARIABLES
    args,         \* the parsed command line
    batch_size,   \* cfg.batch_size
    mpc,          \* position in the script
    made,         \* the objects the script has created so far
    micro_size,   \* micro_size
    trained       \* training steps invoked by model.train

mainVars == <<args, batch_size, mpc, made, micro_size, trained>>

ParallelModes ==
    {"stand_alone", "data_parallel", "hybrid_parallel", "semi_auto_parallel", "auto_parallel"}

\* the modes the training cells tell apart: the reducer's two, stand-alone, and
\* one of the remaining modes
CellParallelModes ==
    {"stand_alone", "data_parallel", "hybrid_parallel", "auto_parallel"}

ClipValues == {RInt(1), RInt(5)}

TrainConfigs ==
    [cell : {"_TrainOneStepCell"}, _micro_batches : 1 .. MaxBatch, _l2_norm : ClipValues,
     parallel_mode : CellParallelModes, sens : {RInt(1), RInt(2)}, scale_update_cell : {"None"}]
    \cup
    [cell : {"_TrainOneStepWithLossScaleCell"}, _micro_batches : 1 .. MaxBatch,
     _l2_norm : ClipValues, parallel_mode : CellParallelModes, sens : {RInt(1)},
     scale_update_cell : {"FixedLossScaleUpdateCell", "DynamicLossScaleUpdateCell"}]

\* self.reducer_flag
reducer_flag == cfg.parallel_mode \in {"data_parallel", "hybrid_parallel"}

\* self.is_distributed
is_distributed == cfg.parallel_mode # "stand_alone"

EmptyFrame ==
    [data |-> <<>>, label |-> <<>>, sens |-> None, scaling_sens |-> RInt(1),
     record_datas |-> <<>>, record_labels |-> <<>>, i |-> 0,
     grad_sum |-> ZeroWeights, grads |-> ZeroWeights, loss |-> RZero]

EmptyObs ==
    [w0 |-> ZeroWeights, scale0 |-> RZero, log |-> <<>>, mech_calls |-> 0,
     opt_calls |-> 0, opt_arg |-> ZeroWeights, upd_calls |-> 0, upd_arg |-> FALSE,
     reduced |-> FALSE, ret |-> <<>>,
     peer |-> ZeroWeights, flags |-> <<0, 0>>, peer_opt |-> FALSE]

\* the batches a step can be called with, and their data and label columns
Batches == UNION {[1 .. n -> Dataset] : n \in 1 .. MaxBatch}
DataOf(batch) == [r \in 1 .. Len(batch) |-> batch[r][1]]
LabelOf(batch) == [r \in 1 .. Len(batch) |-> batch[r][2]]

\* scaling values the caller may pass as `sens`
SensInputs == {None, Some(RInt(4))}

\* the sum of the other devices' accumulated gradients, as AllReduce adds it
PeerGrads == {ZeroWeights, Dir}

TrainInit ==
    /\ cfg \in TrainConfigs
    /\ weights = InitWeights
    /\ loss_scale = IF cfg.scale_update_cell = "None" THEN RZero ELSE RInt(2)
    /\ good_steps = 0
    /\ pc = "idle"
    /\ steps = 0
    /\ fr = EmptyFrame
    /\ obs = EmptyObs

\* ------------------------------------------------------------------------
\* Framework cells the training cells call
\* ------------------------------------------------------------------------
\* self.optimizer(grads): plain gradient descent with learning rate 1
Optimizer(w, grads) == [p \in ParamIds |-> TSub(w[p], grads[p])]

\* DistributedGradReducer(grads): AllReduce-sum of every gradient over devices
DistributedGradReducer(grads, peer) == [p \in ParamIds |-> TAdd(grads[p], peer[p])]

\* scale_factor of the dynamic loss-scale update cell
scale_factor == 2

\* scale_update_cell(loss_scale, cond): the new loss scale, the new count of
\* steps since the last overflow, and the overflow result handed back
ScaleUpdateCell(kind, scale, good, cond) ==
    IF kind = "DynamicLossScaleUpdateCell"
    THEN LET should_inc == ScaleWindow <= good
             on_overflow == IF cond THEN RMax(RDiv(scale, RInt(scale_factor)), RInt(1))
                            ELSE scale
         IN  [loss_scale |-> IF should_inc /\ ~cond
                             THEN RMul(on_overflow, RInt(scale_factor)) ELSE on_overflow,
              good |-> IF cond \/ should_inc THEN 1 ELSE good + 1,
              overflow |-> cond]
    ELSE [loss_scale |-> scale, good |-> good, overflow |-> cond]

\* ------------------------------------------------------------------------
\* One microbatch: loss, back-propagation, clipping
\* (the loop body shared by both cells, at 0-based index n)
\* ------------------------------------------------------------------------
\* the loop stopping one index early: range(1, self._micro_batches - 1)
MicroRange_StopEarly(m) == 1 .. m - 2

\* range(1, self._micro_batches): the indices after the first
MicroRange(m) == 1 .. m - 1

RecordGrad(n, sens) ==
    GradOperation(weights, fr.record_datas[n + 1], fr.record_labels[n + 1], sens)

\* record_grad = self._clip_by_global_norm(record_grad, GRADIENT_CLIP_TYPE, self._l2_norm)
ClippedGrad(raw) == ClipGradients(raw, GRADIENT_CLIP_TYPE, cfg._l2_norm)

\* grad_sum after the microbatch at index n: the clipped gradient itself at the
\* first index, the running sum plus the clipped gradient afterwards
Accumulate(n, grad_sum, clipped) ==
    IF n = 0 THEN clipped
    ELSE [p \in ParamIds |-> TAdd(grad_sum[p], clipped[p])]

LogEntry(n, raw, clipped) ==
    [idx |-> n, data |-> fr.record_datas[n + 1], label |-> fr.record_labels[n + 1],
     at |-> weights, raw |-> raw, clipped |-> clipped]

MicroBatch(n, sens) ==
    LET raw == RecordGrad(n, sens)
        clipped == ClippedGrad(raw)
    IN  /\ fr' = [fr EXCEPT !.loss = Network(weights, fr.record_datas[n + 1],
                                              fr.record_labels[n + 1]),
                            !.grad_sum = Accumulate(n, fr.grad_sum, clipped),
                            !.i = n + 1]
        /\ obs' = [obs EXCEPT !.log = Append(@, LogEntry(n, raw, clipped))]
        /\ pc' = IF n + 1 \in MicroRange(cfg._micro_batches) THEN "loop" ELSE "finish"

\* first index
FirstIndex(sens) == MicroBatch(0, sens)

\* for i in range(1, self._micro_batches)
LoopIndex(sens) == MicroBatch(fr.i, sens)

\* ------------------------------------------------------------------------
\* _TrainOneStepCell.construct
\* ------------------------------------------------------------------------
TOS_Begin ==
    /\ pc = "idle" /\ cfg.cell = "_TrainOneStepCell" /\ steps < MaxSteps
    /\ \E batch \in Batches :
        LET data == DataOf(batch)
            label == LabelOf(batch)
        IN
        /\ steps' = steps + 1
        /\ obs' = [EmptyObs EXCEPT !.w0 = weights, !.scale0 = loss_scale]
        /\ IF SplitOk(data, cfg._micro_batches)
           THEN /\ fr' = [EmptyFrame EXCEPT !.data = data, !.label = label,
                                            !.record_datas = Split(data, cfg._micro_batches),
                                            !.record_labels = Split(label, cfg._micro_batches)]
                /\ pc' = "first"
           ELSE /\ fr' = [EmptyFrame EXCEPT !.data = data, !.label = label]
                /\ pc' = "raised"
    /\ UNCHANGED <<cfg, weights, loss_scale, good_steps, buildVars, mainVars>>

TOS_First ==
    /\ pc = "first" /\ cfg.cell = "_TrainOneStepCell"
    /\ FirstIndex(cfg.sens)
    /\ UNCHANGED <<cfg, weights, loss_scale, good_steps, steps, buildVars, mainVars>>

\* the loop body applying the optimizer to each microbatch gradient as it goes
TOS_Loop_StepEach ==
    /\ pc = "loop" /\ cfg.cell = "_TrainOneStepCell"
    /\ LoopIndex(cfg.sens)
    /\ weights' = Optimizer(weights, ClippedGrad(RecordGrad(fr.i, cfg.sens)))
    /\ UNCHANGED <<cfg, loss_scale, good_steps, steps, buildVars, mainVars>>

TOS_Loop ==
    /\ pc = "loop" /\ cfg.cell = "_TrainOneStepCell"
    /\ LoopIndex(cfg.sens)
    /\ UNCHANGED <<cfg, weights, loss_scale, good_steps, steps, buildVars, mainVars>>

TOS_Finish ==
    /\ pc = "finish" /\ cfg.cell = "_TrainOneStepCell"
    /\ \E peer \in (IF reducer_flag THEN PeerGrads ELSE {ZeroWeights}) :
        LET loss == Network(weights, fr.data, fr.label)
            grads == IF reducer_flag THEN DistributedGradReducer(fr.grad_sum, peer)
                     ELSE fr.grad_sum
        IN  /\ fr' = [fr EXCEPT !.loss = loss, !.grads = grads]
            /\ weights' = Optimizer(weights, grads)
            /\ obs' = [obs EXCEPT !.opt_calls = @ + 1, !.opt_arg = grads,
                                  !.reduced = reducer_flag, !.ret = <<loss>>,
                                  !.peer = peer]
    /\ pc' = "returned"
    /\ UNCHANGED <<cfg, loss_scale, good_steps, steps, buildVars, mainVars>>

\* ------------------------------------------------------------------------
\* _TrainOneStepWithLossScaleCell.construct
\* ------------------------------------------------------------------------
\* scaling_sens: the caller's sens when given, else the cell's loss_scale
ScalingSens(sens) == IF sens = None THEN loss_scale ELSE sens[1]

LS_Begin ==
    /\ pc = "idle" /\ cfg.cell = "_TrainOneStepWithLossScaleCell" /\ steps < MaxSteps
    /\ \E batch \in Batches : \E sens \in SensInputs :
        LET data == DataOf(batch)
            label == LabelOf(batch)
        IN
        /\ steps' = steps + 1
        /\ obs' = [EmptyObs EXCEPT !.w0 = weights, !.scale0 = loss_scale]
        /\ IF SplitOk(data, cfg._micro_batches)
           THEN /\ fr' = [EmptyFrame EXCEPT !.data = data, !.label = label, !.sens = sens,
                                            !.scaling_sens = ScalingSens(sens),
                                            !.record_datas = Split(data, cfg._micro_batches),
                                            !.record_labels = Split(label, cfg._micro_batches)]
                /\ pc' = "first"
           ELSE /\ fr' = [EmptyFrame EXCEPT !.data = data, !.label = label, !.sens = sens,
                                            !.scaling_sens = ScalingSens(sens)]
                /\ pc' = "raised"
    /\ UNCHANGED <<cfg, weights, loss_scale, good_steps, buildVars, mainVars>>

LS_First ==
    /\ pc = "first" /\ cfg.cell = "_TrainOneStepWithLossScaleCell"
    /\ FirstIndex(fr.scaling_sens)
    /\ UNCHANGED <<cfg, weights, loss_scale, good_steps, steps, buildVars, mainVars>>

LS_Loop ==
    /\ pc = "loop" /\ cfg.cell = "_TrainOneStepWithLossScaleCell"
    /\ LoopIndex(fr.scaling_sens)
    /\ UNCHANGED <<cfg, weights, loss_scale, good_steps, steps, buildVars, mainVars>>

\* grads = self.hyper_map(F.partial(grad_scale, scaling_sens), grads)
Unscale(scaling_sens, grads) == [p \in ParamIds |-> tensor_grad_scale(scaling_sens, grads[p])]

\* the comparison made on the device's own flag sum, never all-reduced
OverflowCond_Local(flag_sum, peer_flag) == 1 <= flag_sum

\* cond = self.less_equal(self.base, flag): the flag sum, all-reduced over the
\* devices when distributed, is at least 1
OverflowCond(flag_sum, peer_flag) ==
    IF is_distributed THEN 1 <= flag_sum + peer_flag ELSE 1 <= flag_sum

\* the update cell called whether or not sens is given
UsesUpdateCell_Always(sens) == TRUE

\* if sens is None: overflow = self.loss_scaling_manager(self.loss_scale, cond)
UsesUpdateCell(sens) == sens = None

\* the optimizer applied whether or not the step overflowed
DoOptimize_Always(overflow) == TRUE

\* if overflow: opt = False  else: opt = self.optimizer(grads)
DoOptimize(overflow) == ~overflow

LS_Finish ==
    /\ pc = "finish" /\ cfg.cell = "_TrainOneStepWithLossScaleCell"
    /\ \E peer \in (IF reducer_flag THEN PeerGrads ELSE {ZeroWeights}) :
       \E flag_sum \in {0, MaxFlag} :
       \E peer_flag \in (IF is_distributed THEN {0, MaxFlag} ELSE {0}) :
        LET loss == Network(weights, fr.data, fr.label)
            unscaled == Unscale(fr.scaling_sens, fr.grad_sum)
            grads == IF reducer_flag THEN DistributedGradReducer(unscaled, peer)
                     ELSE unscaled
            cond == OverflowCond(flag_sum, peer_flag)
            upd == ScaleUpdateCell(cfg.scale_update_cell, loss_scale, good_steps, cond)
            overflow == IF UsesUpdateCell(fr.sens) THEN upd.overflow ELSE cond
            \* the same lines as the other device runs them, on its own flag sum
            peer_cond == OverflowCond(peer_flag, flag_sum)
            peer_overflow ==
                IF UsesUpdateCell(fr.sens)
                THEN ScaleUpdateCell(cfg.scale_update_cell, loss_scale, good_steps,
                                     peer_cond).overflow
                ELSE peer_cond
        IN  /\ fr' = [fr EXCEPT !.loss = loss, !.grads = grads]
            /\ IF UsesUpdateCell(fr.sens)
               THEN loss_scale' = upd.loss_scale /\ good_steps' = upd.good
               ELSE UNCHANGED <<loss_scale, good_steps>>
            /\ weights' = IF DoOptimize(overflow) THEN Optimizer(weights, grads) ELSE weights
            \* ret = (loss, cond, scaling_sens); with sens absent scaling_sens is
            \* the loss_scale Parameter itself, read before or after its update
            /\ \E third \in (IF UsesUpdateCell(fr.sens)
                             THEN {fr.scaling_sens, upd.loss_scale}
                             ELSE {fr.scaling_sens}) :
                obs' = [obs EXCEPT
                          !.opt_calls = IF DoOptimize(overflow) THEN @ + 1 ELSE @,
                          !.opt_arg = IF DoOptimize(overflow) THEN grads ELSE @,
                          !.upd_calls = IF UsesUpdateCell(fr.sens) THEN @ + 1 ELSE @,
                          !.upd_arg = IF UsesUpdateCell(fr.sens) THEN cond ELSE @,
                          !.reduced = reducer_flag,
                          !.ret = <<loss, cond, third>>,
                          !.peer = peer,
                          !.flags = <<flag_sum, peer_flag>>,
                          !.peer_opt = DoOptimize(peer_overflow)]
    /\ pc' = "returned"
    /\ UNCHANGED <<cfg, steps, buildVars, mainVars>>

\* the training loop takes the step's result and goes on to the next batch
NextBatch ==
    /\ pc = "returned"
    /\ pc' = "idle"
    /\ fr' = EmptyFrame
    /\ obs' = EmptyObs
    /\ UNCHANGED <<cfg, weights, loss_scale, good_steps, steps, buildVars, mainVars>>

TrainNext ==
    \/ TOS_Begin \/ TOS_First \/ TOS_Loop \/ TOS_Finish
    \/ LS_Begin \/ LS_First \/ LS_Loop \/ LS_Finish
    \/ NextBatch

\* ------------------------------------------------------------------------
\* DPModel: construction and the building of the training network
\* ------------------------------------------------------------------------
\* loss_scale_manager as the caller passes it: not passed at all, None, or a manager
Managers ==
    {"None", "FixedLossScaleManager(drop_overflow_update=False)",
     "FixedLossScaleManager(drop_overflow_update=True)", "DynamicLossScaleManager"}

\* values of the micro_batches argument: None, or 0, 0.5, 1, ... , MaxBatch
MicroBatchArgs == {None} \cup {Some(Rat(h, 2)) : h \in 0 .. 2 * MaxBatch}

BuildArgs ==
    [micro_batches : MicroBatchArgs, norm_clip : ClipValues,
     dp_mech : {"None", "gaussian_mech"},
     optimizer : {"None", "optimizer"}, loss_fn : {"None", "loss_fn"},
     amp_level : {"O0", "O2"}, loss_scale_manager : {"unset"} \cup Managers,
     device_target : {"Ascend", "GPU", "CPU"}, enable_ge : BOOLEAN,
     parallel_mode : ParallelModes]

\* DPModel.__init__: the attributes set before Model.__init__ runs
DPModel_init(micro_batches, norm_clip, dp_mech) ==
    [_micro_batches |-> IF Truthy(micro_batches) THEN Some(PyInt(micro_batches[1]))
                        ELSE None,
     _norm_clip |-> norm_clip,
     _dp_mech |-> dp_mech]

\* _config_level[level].loss_scale_manager: O0 scales nothing, O2 uses dynamic loss scale
LevelManager(level) == IF level = "O0" THEN "None" ELSE "DynamicLossScaleManager"

\* config = dict(_config_level[level], **kwargs): a keyword given overrides the level
ConfigManager(level, loss_scale_manager) ==
    IF loss_scale_manager = "unset" THEN LevelManager(level) ELSE loss_scale_manager

\* loss_scale_manager.get_update_cell()
get_update_cell(manager) ==
    CASE manager = "FixedLossScaleManager(drop_overflow_update=False)" -> "None"
      [] manager = "FixedLossScaleManager(drop_overflow_update=True)" ->
            "FixedLossScaleUpdateCell"
      [] manager = "DynamicLossScaleManager" -> "DynamicLossScaleUpdateCell"

\* the refusal without the enable_ge test
RaisesValueError_NoGE(update_cell, enable_ge, device_target) ==
    update_cell # "None" /\ device_target = "CPU"

\* the one configuration amp_build_train_network refuses
RaisesValueError(update_cell, enable_ge, device_target) ==
    update_cell # "None" /\ ~enable_ge /\ device_target = "CPU"

\* DPModel.amp_build_train_network(network, optimizer, loss_fn, level, **kwargs)
amp_build_train_network(self, loss_fn, level, loss_scale_manager, k) ==
    LET manager == ConfigManager(level, loss_scale_manager)
        update_cell == IF manager = "None" THEN "None" ELSE get_update_cell(manager)
        wrapped == [with_loss |-> loss_fn # "None",
                    virtual_dataset |->
                        k.parallel_mode \in {"semi_auto_parallel", "auto_parallel"}]
    IN  IF update_cell # "None"
        THEN IF RaisesValueError(update_cell, k.enable_ge, k.device_target)
             THEN [kind |-> "ValueError", via |-> "DPModel.amp_build_train_network"]
             ELSE [kind |-> "_TrainOneStepWithLossScaleCell",
                   via |-> "DPModel.amp_build_train_network",
                   scale_update_cell |-> update_cell,
                   micro_batches |-> self._micro_batches,
                   l2_norm_clip |-> self._norm_clip,
                   mech |-> self._dp_mech,
                   wraps |-> wrapped]
        ELSE [kind |-> "_TrainOneStepCell",
              via |-> "DPModel.amp_build_train_network",
              scale_update_cell |-> "None",
              micro_batches |-> self._micro_batches,
              l2_norm_clip |-> self._norm_clip,
              mech |-> self._dp_mech,
              wraps |-> wrapped]

\* _build_train_network testing `self._micro_batches is not None`
BuildNetwork_NotNone(self, k) ==
    IF self._micro_batches # None /\ k.optimizer # "None"
    THEN amp_build_train_network(self, k.loss_fn, k.amp_level, k.loss_scale_manager, k)
    ELSE IF k.optimizer # "None"
    THEN [kind |-> "train_network", via |-> "amp.build_train_network"]
    ELSE IF k.loss_fn # "None"
    THEN [kind |-> "WithLossCell", via |-> "nn.WithLossCell"]
    ELSE [kind |-> "network", via |-> "None"]

\* DPModel._build_train_network: the choice of the network
BuildNetwork(self, k) ==
    IF TruthyInt(self._micro_batches)
    THEN IF k.optimizer # "None"
         THEN amp_build_train_network(self, k.loss_fn, k.amp_level, k.loss_scale_manager, k)
         ELSE IF k.loss_fn # "None"
              THEN [kind |-> "WithLossCell", via |-> "nn.WithLossCell"]
              ELSE [kind |-> "network", via |-> "None"]
    ELSE IF k.optimizer # "None"
         THEN [kind |-> "train_network", via |-> "amp.build_train_network"]
         ELSE IF k.loss_fn # "None"
              THEN [kind |-> "WithLossCell", via |-> "nn.WithLossCell"]
              ELSE [kind |-> "network", via |-> "None"]

\* DPModel._build_train_network: the network, and whether set_auto_parallel ran
BuildTrainNetwork(self, k) ==
    LET network == BuildNetwork(self, k)
    IN  [cell |-> network,
         auto_parallel |-> /\ network.kind # "ValueError"
                           /\ k.parallel_mode \in {"semi_auto_parallel", "auto_parallel"}]

NoModel == [_micro_batches |-> None, _norm_clip |-> RZero, _dp_mech |-> "None"]
NoNet == [cell |-> [kind |-> "unbuilt", via |-> "None"], auto_parallel |-> FALSE]

BuildInit ==
    /\ kw \in BuildArgs
    /\ model = NoModel
    /\ net = NoNet
    /\ bpc = "new"

\* DPModel.__init__ up to the call of Model.__init__
B_Init ==
    /\ bpc = "new"
    /\ model' = DPModel_init(kw.micro_batches, kw.norm_clip, kw.dp_mech)
    /\ bpc' = "attrs"
    /\ UNCHANGED <<kw, net, trainVars, mainVars>>

\* Model.__init__ builds the training network
B_Build ==
    /\ bpc = "attrs"
    /\ net' = BuildTrainNetwork(model, kw)
    /\ bpc' = IF BuildNetwork(model, kw).kind = "ValueError" THEN "raised" ELSE "built"
    /\ UNCHANGED <<kw, model, trainVars, mainVars>>

BuildNext == B_Init \/ B_Build


\* ------------------------------------------------------------------------
\* The example script lenet5_dp_model_train.py (__main__)
\* ------------------------------------------------------------------------
\* --micro_batches is parsed with type=float, default None
ScriptArgs ==
    [micro_batches : MicroBatchArgs, l2_norm_bound : ClipValues,
     device_target : {"Ascend", "GPU", "CPU"}]

BatchSizes == 1 .. 2 * MaxBatch

\* the keyword arguments the script constructs its DPModel with
ScriptKw(a) ==
    [micro_batches |-> a.micro_batches, norm_clip |-> a.l2_norm_bound,
     dp_mech |-> "gaussian_mech", optimizer |-> "optimizer", loss_fn |-> "loss_fn",
     amp_level |-> "O0", loss_scale_manager |-> "unset",
     device_target |-> a.device_target, enable_ge |-> FALSE,
     parallel_mode |-> "stand_alone"]

MainInit ==
    /\ args \in ScriptArgs
    /\ batch_size \in BatchSizes
    /\ mpc = "start"
    /\ made = {}
    /\ micro_size = 0
    /\ trained = 0
    /\ kw = ScriptKw(args)
    /\ model = NoModel
    /\ net = NoNet
    /\ bpc = "new"

\* if args.micro_batches and cfg.batch_size % args.micro_batches != 0: raise ValueError
DividesEvenly(size, micro_batches) ==
    ~(Truthy(micro_batches) /\ RMod(RInt(size), micro_batches[1]) # RZero)

M_Check ==
    /\ mpc = "start"
    /\ mpc' = IF DividesEvenly(batch_size, args.micro_batches) THEN "checked"
              ELSE "ValueError"
    /\ UNCHANGED <<args, batch_size, made, micro_size, trained, buildVars, trainVars>>

\* gaussian_mech = DPOptimizerClassFactory(...); net_opt = gaussian_mech.create('SGD')(...)
M_Optimizer ==
    /\ mpc = "checked"
    /\ made' = made \cup {"gaussian_mech", "net_opt"}
    /\ mpc' = "optimizer"
    /\ UNCHANGED <<args, batch_size, micro_size, trained, buildVars, trainVars>>

\* micro_size = int(cfg.batch_size // args.micro_batches); rdp_monitor = ...
M_Monitor ==
    /\ mpc = "optimizer"
    /\ IF args.micro_batches = None
       THEN mpc' = "TypeError" /\ UNCHANGED <<made, micro_size>>
       ELSE IF args.micro_batches[1] = RZero
       THEN mpc' = "ZeroDivisionError" /\ UNCHANGED <<made, micro_size>>
       ELSE /\ micro_size' = PyInt(RFloorDiv(RInt(batch_size), args.micro_batches[1]))
            /\ made' = made \cup {"rdp_monitor"}
            /\ mpc' = "monitor"
    /\ UNCHANGED <<args, batch_size, trained, buildVars, trainVars>>

\* model = DPModel(micro_batches=args.micro_batches, norm_clip=args.l2_norm_bound, ...)
M_Model ==
    /\ mpc = "monitor"
    /\ model' = DPModel_init(kw.micro_batches, kw.norm_clip, kw.dp_mech)
    /\ net' = BuildTrainNetwork(DPModel_init(kw.micro_batches, kw.norm_clip, kw.dp_mech), kw)
    /\ bpc' = "built"
    /\ made' = made \cup {"model"}
    /\ mpc' = "model"
    /\ UNCHANGED <<args, batch_size, micro_size, trained, kw, trainVars>>

\* the batches of the training set: batch(batch_size, drop_remainder=True)
ScriptBatch == [r \in 1 .. batch_size |-> 1]

\* whether the training network splits its batch into micro_batches parts
SplitsBatch(network) == network.via = "DPModel.amp_build_train_network"

\* model.train(...): one more training step on a batch of batch_size records
M_Train ==
    /\ mpc \in {"model", "training"}
    /\ trained < MaxSteps
    /\ trained' = trained + 1
    /\ mpc' = IF SplitsBatch(net.cell) /\ ~SplitOk(ScriptBatch, net.cell.micro_batches[1])
              THEN "SplitError" ELSE "training"
    /\ UNCHANGED <<args, batch_size, made, micro_size, buildVars, trainVars>>

MainNext == M_Check \/ M_Optimizer \/ M_Monitor \/ M_Model \/ M_Train

\* ------------------------------------------------------------------------
\* Specifications
\* ------------------------------------------------------------------------
vars == <<trainVars, buildVars, mainVars>>

\* fixed values of the variables a specification does not use
TrainIdle ==
    /\ cfg = [cell |-> "None"]
    /\ weights = ZeroWeights /\ loss_scale = RZero /\ good_steps = 0
    /\ pc = "none" /\ steps = 0 /\ fr = EmptyFrame /\ obs = EmptyObs

BuildIdle ==
    /\ kw = [micro_batches |-> None] /\ model = NoModel /\ net = NoNet /\ bpc = "none"

MainIdle ==
    /\ args = [micro_batches |-> None] /\ batch_size = 0 /\ mpc = "none"
    /\ made = {} /\ micro_size = 0 /\ trained = 0

\* the training cells: steps of construct
Init == TrainInit /\ BuildIdle /\ MainIdle

Next == TrainNext

Spec == Init /\ [][Next]_vars

\* the construction of a DPModel
InitBuild == BuildInit /\ TrainIdle /\ MainIdle

NextBuild == BuildNext

SpecBuild == InitBuild /\ [][NextBuild]_vars

\* the example script
InitMain == MainInit /\ TrainIdle

NextMain == MainNext

SpecMain == InitMain /\ [][NextMain]_vars

\* ------------------------------------------------------------------------
\* Properties of the training cells (specification Spec)
\* ------------------------------------------------------------------------
IsLossScaleCell == cfg.cell = "_TrainOneStepWithLossScaleCell"

\* the sensitivity the running step back-propagates
StepSens == IF IsLossScaleCell THEN fr.scaling_sens ELSE cfg.sens

\* every microbatch of the running step has been processed
AllAccumulated == pc \in {"finish", "returned"}

\* C1: whenever a step calls the optimizer, the gradients it passes have been
\* handed to the noise mechanism mech first.
C1_OptimizerAfterMech == obs.opt_calls > 0 => obs.mech_calls > 0

\* C2: every microbatch gradient added to the accumulator has global L2 norm
\* (over all parameter tensors) at most l2_norm_clip, and the accumulated
\* gradient has global norm at most micro_batches * l2_norm_clip.
C2_GlobalNormBound ==
    /\ \A n \in 1 .. Len(obs.log) :
          RLeq(GlobalNormSq(obs.log[n].clipped), RMul(cfg._l2_norm, cfg._l2_norm))
    /\ AllAccumulated =>
          LET bound == RMul(RInt(cfg._micro_batches), cfg._l2_norm)
          IN  RLeq(GlobalNormSq(fr.grad_sum), RMul(bound, bound))

\* concatenation of a sequence of sequences
RECURSIVE Concat(_)
Concat(parts) == IF parts = <<>> THEN <<>> ELSE Head(parts) \o Concat(Tail(parts))

\* element-wise sum, per parameter, of the clipped gradients of the first n log entries
RECURSIVE ClippedSum(_, _)
ClippedSum(log, n) ==
    IF n = 0 THEN ZeroWeights
    ELSE LET rest == ClippedSum(log, n - 1)
         IN  [p \in ParamIds |-> TAdd(rest[p], log[n].clipped[p])]

\* C3: the batch (data and label alike) is split along axis 0 into micro_batches
\* equal parts; a gradient is computed and clipped exactly once for each part
\* index 0 .. micro_batches - 1, in order; the gradient tuple passed on has one
\* entry per trainable parameter, the element-wise sum of that parameter's
\* clipped microbatch gradients.
C3_SplitAndAccumulate ==
    /\ pc \in {"first", "loop", "finish", "returned"} =>
          /\ Len(fr.record_datas) = cfg._micro_batches
          /\ Len(fr.record_labels) = cfg._micro_batches
          /\ Concat(fr.record_datas) = fr.data
          /\ Concat(fr.record_labels) = fr.label
          /\ \A n \in 1 .. cfg._micro_batches :
                /\ Len(fr.record_datas[n]) * cfg._micro_batches = Len(fr.data)
                /\ Len(fr.record_labels[n]) * cfg._micro_batches = Len(fr.label)
          /\ \A n \in 1 .. Len(obs.log) :
                /\ obs.log[n].idx = n - 1
                /\ obs.log[n].data = fr.record_datas[n]
                /\ obs.log[n].label = fr.record_labels[n]
                /\ obs.log[n].raw =
                      GradOperation(obs.w0, fr.record_datas[n], fr.record_labels[n], StepSens)
                /\ obs.log[n].clipped =
                      [p \in ParamIds |-> ClipByNorm(obs.log[n].raw[p], cfg._l2_norm)]
    /\ AllAccumulated =>
          /\ Len(obs.log) = cfg._micro_batches
          /\ DOMAIN fr.grad_sum = ParamIds
          /\ fr.grad_sum = ClippedSum(obs.log, cfg._micro_batches)

\* a step of three microbatches, and a step of a single one, have accumulated
C3_Witness ==
    /\ pc = "finish"
    /\ cfg._micro_batches = MaxBatch
    /\ Len(obs.log) = MaxBatch
    /\ \E n \in 1 .. Len(obs.log) : obs.log[n].clipped # obs.log[n].raw
    /\ obs.log[1].clipped # obs.log[MaxBatch].clipped

\* a gradient tuple divided, element by element, by a scaling value
DividedBy(grads, scale) ==
    [p \in ParamIds |-> [j \in 1 .. Len(grads[p]) |-> RDiv(grads[p][j], scale)]]

\* the gradients a step may hand on: the given ones, plus the other devices'
\* contribution when the parallel mode reduces gradients
HandedOn(grads) ==
    IF reducer_flag
    THEN {[p \in ParamIds |-> TAdd(grads[p], peer[p])] : peer \in PeerGrads}
    ELSE {grads}

LossScaleStepDone == IsLossScaleCell /\ pc = "returned"

\* C4: in the loss-scale cell the optimizer is applied iff no overflow was
\* detected: on overflow it is not called and the weights are unchanged; with
\* no overflow it is called exactly once, with the unscaled accumulated
\* gradients (reduced over devices where the parallel mode asks for it).
C4_OptimizerIffNoOverflow ==
    LossScaleStepDone =>
       IF obs.ret[2]
       THEN obs.opt_calls = 0 /\ weights = obs.w0
       ELSE /\ obs.opt_calls = 1
            /\ obs.opt_arg \in HandedOn(DividedBy(fr.grad_sum, fr.scaling_sens))
            /\ weights = [p \in ParamIds |-> TSub(obs.w0[p], obs.opt_arg[p])]

\* an overflow step whose gradients would have moved the weights, with the
\* update cell in use
C4_Witness ==
    /\ LossScaleStepDone
    /\ obs.ret[2]
    /\ fr.sens = None
    /\ fr.grad_sum # ZeroWeights
    /\ cfg._micro_batches > 1

\* C5: when sens is provided the scale update cell is not invoked, loss_scale is
\* left unchanged, the provided sens is the value back-propagated, the value
\* the gradients are unscaled by and the third element returned; when sens is
\* not given the cell's own loss_scale is used and the update cell is invoked
\* exactly once, with the overflow condition.
C5_SensOverridesUpdateCell ==
    LossScaleStepDone =>
       LET used == IF fr.sens = None THEN obs.scale0 ELSE fr.sens[1]
       IN  /\ fr.scaling_sens = used
           /\ \A n \in 1 .. Len(obs.log) :
                 obs.log[n].raw =
                    GradOperation(obs.w0, fr.record_datas[n], fr.record_labels[n], used)
           /\ obs.opt_calls = 1 => obs.opt_arg \in HandedOn(DividedBy(fr.grad_sum, used))
           /\ IF fr.sens = None
              THEN obs.upd_calls = 1 /\ obs.upd_arg = obs.ret[2]
              ELSE /\ obs.upd_calls = 0
                   /\ loss_scale = obs.scale0
                   /\ obs.ret[3] = fr.sens[1]

\* sens is provided, differs from the cell's loss_scale, and the step overflowed
\* under a dynamic update cell (which would have lowered loss_scale)
C5_Witness ==
    /\ LossScaleStepDone
    /\ fr.sens # None
    /\ fr.sens[1] # loss_scale
    /\ cfg.scale_update_cell = "DynamicLossScaleUpdateCell"
    /\ obs.ret[2]

\* C6: with l2_norm_clip = 1 the clipping step returns the original data: every
\* clipped microbatch gradient equals the unclipped one.
C6_ClipOneReturnsOriginal ==
    cfg._l2_norm = RInt(1) =>
       \A n \in 1 .. Len(obs.log) : obs.log[n].clipped = obs.log[n].raw

\* C10: within a step the optimizer is called at most once, and only after all
\* micro_batches gradients are accumulated; the weights do not change while the
\* microbatch gradients are computed, so each is taken at the weights the step
\* started with; the loss returned is that of the whole batch at those weights.
C10_OptimizerLastLossBefore ==
    /\ obs.opt_calls <= 1
    /\ obs.opt_calls = 1 => pc = "returned" /\ Len(obs.log) = cfg._micro_batches
    /\ pc \in {"first", "loop", "finish"} => weights = obs.w0
    /\ \A n \in 1 .. Len(obs.log) : obs.log[n].at = obs.w0
    /\ pc = "returned" => obs.ret[1] = Network(obs.w0, fr.data, fr.label)

\* a finished step of MaxBatch microbatches whose optimizer call moved the
\* weights, so that the loss after the update differs from the one returned
C10_Witness ==
    /\ pc = "returned"
    /\ cfg._micro_batches = MaxBatch
    /\ obs.opt_calls = 1
    /\ weights # obs.w0
    /\ Network(weights, fr.data, fr.label) # obs.ret[1]

\* ------------------------------------------------------------------------
\* Properties of the construction of a DPModel (specification SpecBuild)
\* ------------------------------------------------------------------------
BuildDone == bpc \in {"built", "raised"}

ViaDP == net.cell.via = "DPModel.amp_build_train_network"

\* what _build_train_network does for a given reading of "micro_batches is set"
BuildsAsStated(is_set) ==
    /\ ViaDP <=> (is_set /\ kw.optimizer # "None")
    /\ ViaDP /\ bpc = "built" =>
          /\ net.cell.kind \in {"_TrainOneStepCell", "_TrainOneStepWithLossScaleCell"}
          /\ net.cell.micro_batches = model._micro_batches
          /\ net.cell.l2_norm_clip = kw.norm_clip
          /\ net.cell.mech = kw.dp_mech
    /\ ~is_set /\ kw.optimizer # "None" => net.cell.via = "amp.build_train_network"
    /\ kw.optimizer = "None" /\ kw.loss_fn # "None" => net.cell.kind = "WithLossCell"
    /\ kw.optimizer = "None" /\ kw.loss_fn = "None" => net.cell.kind = "network"

\* C7: _build_train_network builds the differentially-private training cell
\* (through amp_build_train_network, with the model's micro_batches, norm_clip
\* and dp_mech) exactly when micro_batches was given a non-zero value and an
\* optimizer is set; with micro_batches None or 0 it builds through
\* amp.build_train_network; with no optimizer the network is wrapped with the
\* loss function if one is set and returned as is otherwise.
C7_DPCellIffNonZero ==
    BuildDone =>
       BuildsAsStated(kw.micro_batches # None /\ kw.micro_batches[1] # RZero)

\* C7 as amended: the test is on the integer part int(micro_batches), which is
\* the micro_batches the model keeps and passes to the cell.
C7_DPCellIffIntPartNonZero ==
    BuildDone =>
       LET int_part == IF kw.micro_batches = None THEN 0
                       ELSE IF kw.micro_batches[1][1] >= 0
                       THEN kw.micro_batches[1][1] \div kw.micro_batches[1][2]
                       ELSE -((-kw.micro_batches[1][1]) \div kw.micro_batches[1][2])
       IN  /\ BuildsAsStated(int_part # 0)
           /\ int_part # 0 => model._micro_batches = Some(int_part)

\* micro_batches = 0.5 with an optimizer: non-zero, yet built as the framework does
C7_Witness ==
    /\ bpc = "built"
    /\ kw.micro_batches = Some(Rat(1, 2))
    /\ kw.optimizer # "None"
    /\ net.cell.via = "amp.build_train_network"

\* C8 for a given reading of "the loss scale manager in force"
RaisesAsStated(manager) ==
    ViaDP =>
       /\ bpc = "raised" <=>
             /\ manager \in {"FixedLossScaleManager(drop_overflow_update=True)",
                             "DynamicLossScaleManager"}
             /\ kw.device_target = "CPU"
             /\ ~kw.enable_ge
       /\ bpc = "built" =>
             net.cell.kind \in {"_TrainOneStepCell", "_TrainOneStepWithLossScaleCell"}

\* C8: amp_build_train_network raises ValueError whenever a loss_scale_manager
\* is given whose get_update_cell() is not None, the device target is CPU and
\* enable_ge is off; in every other configuration it returns a training cell.
C8_RaisesIffGivenManager ==
    BuildDone =>
       RaisesAsStated(IF kw.loss_scale_manager = "unset" THEN "None"
                      ELSE kw.loss_scale_manager)

\* C8 as amended: the manager in force is the one given or, when none is given,
\* the level's own: none for O0, a dynamic loss scale manager for O2.
C8_RaisesIffManagerInForce ==
    BuildDone =>
       RaisesAsStated(IF kw.loss_scale_manager # "unset" THEN kw.loss_scale_manager
                      ELSE IF kw.amp_level = "O2" THEN "DynamicLossScaleManager"
                      ELSE "None")

\* level O2 with no manager given, on CPU without GE: the call raises
C8_Witness ==
    /\ bpc = "raised"
    /\ kw.loss_scale_manager = "unset"
    /\ kw.amp_level = "O2"

\* ------------------------------------------------------------------------
\* Properties of the example script (specification SpecMain)
\* ------------------------------------------------------------------------
\* C9: when micro_batches is set and batch_size is not an exact multiple of it,
\* ValueError is raised before the optimizer, the privacy monitor and the
\* DPModel are created and before any training step; so every training step
\* that runs with micro_batches set has a batch that splits evenly into the
\* cell's micro_batches parts.
C9_UnevenBatchNeverTrains ==
    /\ Truthy(args.micro_batches)
          /\ RMod(RInt(batch_size), args.micro_batches[1]) # RZero =>
          /\ mpc \in {"start", "ValueError"}
          /\ made = {}
          /\ trained = 0
    /\ trained > 0 /\ args.micro_batches # None /\ SplitsBatch(net.cell) =>
          batch_size % net.cell.micro_batches[1] = 0

\* ------------------------------------------------------------------------
\* Distributed training (specification Spec)
\* ------------------------------------------------------------------------
\* C11: in the loss-scale cell the overflow condition is true exactly when the
\* overflow flag sum is at least 1, the sum being all-reduced over the devices
\* before the comparison whenever the parallel mode is not STAND_ALONE, so
\* that in one step either every device applies its optimizer or none does;
\* the gradient reducer is applied to the accumulated gradients exactly when
\* the parallel mode is DATA_PARALLEL or HYBRID_PARALLEL, after accumulation
\* and before the optimizer, and the gradients pass unchanged otherwise.
C11_OverflowAgreedReducerByMode ==
    LET reduces == cfg.parallel_mode \in {"data_parallel", "hybrid_parallel"}
        accumulated == IF IsLossScaleCell
                       THEN DividedBy(ClippedSum(obs.log, cfg._micro_batches),
                                      fr.scaling_sens)
                       ELSE ClippedSum(obs.log, cfg._micro_batches)
        with_peers == [p \in ParamIds |->
                          [j \in 1 .. Len(accumulated[p]) |->
                              RAdd(accumulated[p][j], obs.peer[p][j])]]
    IN  /\ LossScaleStepDone =>
              /\ obs.ret[2] <=>
                    1 <= (IF cfg.parallel_mode = "stand_alone" THEN obs.flags[1]
                          ELSE obs.flags[1] + obs.flags[2])
              /\ cfg.parallel_mode # "stand_alone" =>
                    (obs.peer_opt <=> obs.opt_calls = 1)
        /\ pc = "returned" =>
              /\ obs.reduced <=> reduces
              /\ obs.opt_calls = 1 =>
                    obs.opt_arg = IF reduces THEN with_peers ELSE accumulated

\* a data-parallel step in which only the other device overflowed and sent a
\* non-zero gradient: neither device applies its optimizer
C11_Witness ==
    /\ LossScaleStepDone
    /\ cfg.parallel_mode = "data_parallel"
    /\ obs.flags[1] = 0 /\ obs.flags[2] >= 1
    /\ obs.peer # ZeroWeights
    /\ obs.opt_calls = 0
    /\ ~obs.peer_opt

\* ------------------------------------------------------------------------
\* Loss scaling and the clip bound (specification Spec)
\* ------------------------------------------------------------------------
\* scaling values a step of the loss-scale cell can run with
ScalingValues == {RInt(2), RInt(4)}

\* the gradients the loss-scale cell's construct computes for the optimizer
\* from weights w, the split batch, the clip bound and the scaling value:
\* scaled back-propagation, clipping, accumulation, division by the scale
ConstructGrads(w, record_datas, record_labels, l2_norm, scaling_sens) ==
    LET m == Len(record_datas)
        log == [n \in 1 .. m |->
                   [clipped |-> ClipGradients(
                                   GradOperation(w, record_datas[n], record_labels[n],
                                                 scaling_sens),
                                   GRADIENT_CLIP_TYPE, l2_norm)]]
    IN  Unscale(scaling_sens, ClippedSum(log, m))

\* C12: in the loss-scale cell, absent overflow, the gradients handed to the
\* optimizer do not depend on the loss scaling value: a step from the same
\* weights on the same batch with the same l2_norm_clip hands the optimizer
\* the same gradients whichever scaling_sens it runs with.
C12_GradientsIndependentOfScale ==
    LossScaleStepDone /\ ~obs.ret[2] /\ obs.opt_calls = 1 =>
       \A s \in ScalingValues :
          LET own == ConstructGrads(obs.w0, fr.record_datas, fr.record_labels,
                                    cfg._l2_norm, s)
          IN  obs.opt_arg = IF reducer_flag THEN DistributedGradReducer(own, obs.peer)
                            ELSE own

====
